---- MODULE Spec2Model ----
(***************************************************************************)
(* State-machine models of the design-pattern demonstration programs:      *)
(* the thread-safe Singleton, the Observer publisher, the Flyweight        *)
(* factory, the Prototype factory, the Command invoker, the Strategy       *)
(* context and the Decorator chain.  Each program is independent of the    *)
(* others and has a specification of its own; while one program runs, the  *)
(* variables of the others stay at their initial values.                   *)
(***************************************************************************)
EXTENDS Integers, Sequences, FiniteSets, TLC

(***************************************************************************)
(* Bounds of the model.                                                    *)
(***************************************************************************)
\* Number of threads calling Singleton::GetInstance.
NThreads == 2
\* Number of GetInstance calls each thread makes.
MaxCalls == 2

\* Longest subscriber list of the Publisher.
MaxList == 3
\* Number of calls the Observer client makes on the Publisher.
MaxOps == 5

\* Longest initializer list given to the FlyweightFactory constructor.
MaxInit == 2
\* Number of GetFlyweight calls made on the factory.
MaxRequests == 2

\* Number of objects the Prototype client obtains by cloning.
MaxClones == 2

\* Number of Command objects the Command client constructs.
MaxCommands == 2

\* Longest text given to Context::doSomeBusinessLogic, the client's own
\* text apart.
MaxText == 3
\* Number of strategies given to the Context, constructor and setter.
MaxSets == 3

\* Number of Component objects the Decorator client constructs.
MaxComponents == 4

VARIABLES
    \* ---- Singleton ----
    m_instance_ptr,   \* static Singleton* m_instance_ptr (nullptr or an object)
    m_mutex,          \* static std::mutex m_mutex: its owner, or NoThread
    objects,          \* every Singleton constructed so far, in construction order
    pc,               \* position of each thread
    arg,              \* the argument of each thread's call in progress
    ret,              \* the pointer each thread's last call returned
    observed,         \* the Value() each thread last read through its pointer
    calls,            \* number of GetInstance calls each thread has made
    \* ---- Observer ----
    list_observer_,   \* Publisher::list_observer_, a std::list<IObserver*>
    message_,         \* Publisher::message_
    message_from_publisher_,  \* Observer::message_from_publisher_, per observer
    notify_pc,        \* "idle", or "loop" while Notify is iterating
    iterator,         \* Notify's iterator: the index of the node it points to
    deliveries,       \* the Update calls of the current (or last) Notify call
    crashed,          \* the Observer program has crashed
    ub,               \* Notify has advanced an iterator to an erased node
    subscriptions,    \* history: the subscriptions in force, in Attach order
    removed,          \* history: observers detached and not attached again
    notify_call,      \* history: how the current (or last) Notify call began
    last_op,          \* history: the last Publisher call and the state before it
    ops,              \* number of calls the client has made
    \* ---- Flyweight ----
    ff_constructed,   \* the FlyweightFactory has been constructed
    flyweights_,      \* FlyweightFactory::flyweights_: its (key, Flyweight) nodes
    ss_heap,          \* the SharedState objects allocated with new, by address
    fw_heap,          \* the Flyweight objects alive, by address
    results,          \* the Flyweight each GetFlyweight call returned, and its request
    requested,        \* history: the shared states requested so far
    ff_last,          \* history: the last call on the factory or on a Flyweight
    \* ---- Prototype ----
    prototypes_,      \* PrototypeFactory::prototypes_: Type -> Prototype*
    proto_heap,       \* the Prototype objects alive, by address
    proto_next,       \* the address the next new Prototype gets
    clones,           \* the clones the client holds
    proto_result,     \* how the last CreatePrototype call ended
    proto_crashed,    \* the Prototype program has crashed
    proto_last,       \* history: the last Prototype call and the heap before it
    clone_of,         \* history: the object each clone was made from, as it was
    \* ---- Command ----
    inv_constructed,  \* the Invoker has been constructed
    on_start_,        \* Invoker::on_start_
    on_finish_,       \* Invoker::on_finish_
    commands,         \* the Command objects constructed, by address
    cmd_log,          \* what the last DoSomethingImportant call did, in order
    cmd_crashed,      \* the Command program has crashed
    cmd_ub,           \* Execute has been called through an invalid pointer
    made,             \* history: the constructor arguments of each Command
    slot_set,         \* history: the slots bound with SetOnStart / SetOnFinish
    called_with,      \* history: the slots as the last DoSomethingImportant found them
    \* ---- Strategy ----
    ctx_constructed,  \* the Context has been constructed
    strategy_,        \* Context::strategy_: nullptr or the Strategy it owns
    ctx_output,       \* what the last doSomeBusinessLogic call printed
    ctx_given,        \* history: the strategies given to the Context, in order
    ctx_last,         \* history: the last doSomeBusinessLogic call
    \* ---- Decorator ----
    components,       \* the Component objects constructed, by address
    dec_result,       \* the last Operation() call: its receiver and its result
    wraps             \* history: the decorators around the base of each Component

singletonVars == <<m_instance_ptr, m_mutex, objects, pc, arg, ret, observed, calls>>

observerVars == <<list_observer_, message_, message_from_publisher_, notify_pc,
                  iterator, deliveries, crashed, ub, subscriptions, removed,
                  notify_call, last_op, ops>>

flyweightVars == <<ff_constructed, flyweights_, ss_heap, fw_heap, results, requested,
                   ff_last>>

prototypeVars == <<prototypes_, proto_heap, proto_next, clones, proto_result,
                   proto_crashed, proto_last, clone_of>>

commandVars == <<inv_constructed, on_start_, on_finish_, commands, cmd_log,
                 cmd_crashed, cmd_ub, made, slot_set, called_with>>

strategyVars == <<ctx_constructed, strategy_, ctx_output, ctx_given, ctx_last>>

decoratorVars == <<components, dec_result, wraps>>

vars == <<singletonVars, observerVars, flyweightVars, prototypeVars,
          commandVars, strategyVars, decoratorVars>>

(***************************************************************************)
(* Singleton                                                               *)
(***************************************************************************)
nullptr == 0
NoThread == 0
NoValue == "<none>"
Threads == 1..NThreads
\* The arguments of ThreadFoo and ThreadBar.
Args == {"FOO", "BAR"}

InitSingleton ==
    /\ m_instance_ptr = nullptr
    /\ m_mutex = NoThread
    /\ objects = <<>>
    /\ pc = [t \in Threads |-> "idle"]
    /\ arg = [t \in Threads |-> NoValue]
    /\ ret = [t \in Threads |-> nullptr]
    /\ observed = [t \in Threads |-> NoValue]
    /\ calls = [t \in Threads |-> 0]

\* A thread calls Singleton::GetInstance(a).
Call(t, a) ==
    /\ pc[t] = "idle"
    /\ calls[t] < MaxCalls
    /\ pc' = [pc EXCEPT ![t] = "lock"]
    /\ arg' = [arg EXCEPT ![t] = a]
    /\ calls' = [calls EXCEPT ![t] = @ + 1]
    /\ UNCHANGED <<m_instance_ptr, m_mutex, objects, ret, observed>>
    /\ UNCHANGED <<observerVars, flyweightVars, prototypeVars,
                   commandVars, strategyVars, decoratorVars>>

\* A mutex that never blocks.
CanLockNoMutex == TRUE

\* std::mutex::lock returns only when no thread owns the mutex.
CanLock == m_mutex = NoThread

\* std::lock_guard<std::mutex> lock(m_mutex);
Lock(t) ==
    /\ pc[t] = "lock"
    /\ CanLock
    /\ m_mutex' = t
    /\ pc' = [pc EXCEPT ![t] = "check"]
    /\ UNCHANGED <<m_instance_ptr, objects, arg, ret, observed, calls>>
    /\ UNCHANGED <<observerVars, flyweightVars, prototypeVars,
                   commandVars, strategyVars, decoratorVars>>

\* A test that always takes the construction branch.
InstanceIsNullAlways == TRUE

\* m_instance_ptr == nullptr
InstanceIsNull == m_instance_ptr = nullptr

\* A lock released right after the test, before the construction.
CheckThenUnlock(t) ==
    /\ pc[t] = "check"
    /\ pc' = [pc EXCEPT ![t] = IF InstanceIsNull THEN "construct" ELSE "return"]
    /\ m_mutex' = NoThread
    /\ UNCHANGED <<m_instance_ptr, objects, arg, ret, observed, calls>>
    /\ UNCHANGED <<observerVars, flyweightVars, prototypeVars,
                   commandVars, strategyVars, decoratorVars>>

\* if (m_instance_ptr == nullptr)
Check(t) ==
    /\ pc[t] = "check"
    /\ pc' = [pc EXCEPT ![t] = IF InstanceIsNull THEN "construct" ELSE "return"]
    /\ UNCHANGED <<m_instance_ptr, m_mutex, objects, arg, ret, observed, calls>>
    /\ UNCHANGED <<observerVars, flyweightVars, prototypeVars,
                   commandVars, strategyVars, decoratorVars>>

\* m_instance_ptr = new Singleton(value);
Construct(t) ==
    /\ pc[t] = "construct"
    /\ objects' = Append(objects, [m_value |-> arg[t], by |-> t, call |-> calls[t]])
    /\ m_instance_ptr' = Len(objects) + 1
    /\ pc' = [pc EXCEPT ![t] = "return"]
    /\ UNCHANGED <<m_mutex, arg, ret, observed, calls>>
    /\ UNCHANGED <<observerVars, flyweightVars, prototypeVars,
                   commandVars, strategyVars, decoratorVars>>

\* A return that leaves the mutex locked.
ReturnNoUnlock(t) ==
    /\ pc[t] = "return"
    /\ ret' = [ret EXCEPT ![t] = m_instance_ptr]
    /\ pc' = [pc EXCEPT ![t] = "value"]
    /\ UNCHANGED <<m_instance_ptr, m_mutex, objects, arg, observed, calls>>
    /\ UNCHANGED <<observerVars, flyweightVars, prototypeVars,
                   commandVars, strategyVars, decoratorVars>>

\* return m_instance_ptr; and then the lock_guard's destructor unlocks.
Return(t) ==
    /\ pc[t] = "return"
    /\ ret' = [ret EXCEPT ![t] = m_instance_ptr]
    /\ m_mutex' = NoThread
    /\ pc' = [pc EXCEPT ![t] = "value"]
    /\ UNCHANGED <<m_instance_ptr, objects, arg, observed, calls>>
    /\ UNCHANGED <<observerVars, flyweightVars, prototypeVars,
                   commandVars, strategyVars, decoratorVars>>

\* singleton->Value()
ReadValue(t) ==
    /\ pc[t] = "value"
    /\ observed' = [observed EXCEPT ![t] = objects[ret[t]].m_value]
    /\ pc' = [pc EXCEPT ![t] = "idle"]
    /\ UNCHANGED <<m_instance_ptr, m_mutex, objects, arg, ret, calls>>
    /\ UNCHANGED <<observerVars, flyweightVars, prototypeVars,
                   commandVars, strategyVars, decoratorVars>>

\* The steps of thread t: the body of ThreadFoo / ThreadBar.
ThreadStep(t) ==
    \/ \E a \in Args : Call(t, a)
    \/ Lock(t)
    \/ Check(t)
    \/ Construct(t)
    \/ Return(t)
    \/ ReadValue(t)

\* The scheduler runs every started thread that stays able to run: a thread
\* blocked in std::mutex::lock cannot run while another thread owns the mutex,
\* and nothing promises it the mutex ahead of other threads that keep asking.
FairScheduling == \A t \in Threads : WF_vars(ThreadStep(t))

NextSingleton ==
    \/ \E t \in Threads, a \in Args : Call(t, a)
    \/ \E t \in Threads : Lock(t)
    \/ \E t \in Threads : Check(t)
    \/ \E t \in Threads : Construct(t)
    \/ \E t \in Threads : Return(t)
    \/ \E t \in Threads : ReadValue(t)

(***************************************************************************)
(* Observer                                                                *)
(***************************************************************************)
\* The observers of the client: observer objects are told apart by identity.
Observers == {"A", "B", "C"}
\* A default-constructed std::string.
EmptyString == ""
\* The texts given to CreateMessage ("Empty" is its default argument).
Messages == {"Empty", "Hello World! :D"}
Client == "client"

Range(s) == {s[i] : i \in 1..Len(s)}
Count(s, v) == Cardinality({i \in 1..Len(s) : s[i] = v})

InitObserver ==
    /\ list_observer_ = <<>>
    /\ message_ = EmptyString
    /\ message_from_publisher_ = [o \in Observers |-> EmptyString]
    /\ notify_pc = "idle"
    /\ iterator = 0
    /\ deliveries = <<>>
    /\ crashed = FALSE
    /\ ub = FALSE
    /\ subscriptions = <<>>
    /\ removed = {}
    /\ notify_call = [started |-> FALSE, list |-> <<>>, text |-> NoValue, cb |-> {}]
    /\ last_op = [op |-> "none", arg |-> NoValue, from |-> Client,
                  pre |-> <<>>, premsg |-> EmptyString]
    /\ ops = 0

\* A remove that erases the first matching element only.
RECURSIVE ListRemoveFirst(_, _)
ListRemoveFirst(s, v) ==
    IF s = <<>> THEN <<>>
    ELSE IF Head(s) = v THEN Tail(s)
    ELSE <<Head(s)>> \o ListRemoveFirst(Tail(s), v)

\* An erase of the node a failed search returns, taken to be the last one.
ListRemoveOrLast(s, v) ==
    IF v \in Range(s) THEN SelectSeq(s, LAMBDA x : x # v)
    ELSE SubSeq(s, 1, Len(s) - 1)

\* std::list::remove(value): walks the list from begin() to end() and erases
\* every element that compares equal to value.
RECURSIVE ListRemove(_, _)
ListRemove(s, v) ==
    IF s = <<>> THEN <<>>
    ELSE IF Head(s) = v THEN ListRemove(Tail(s), v)
    ELSE <<Head(s)>> \o ListRemove(Tail(s), v)

\* A push_front in the place of push_back.
ListPushFront(s, v) == <<v>> \o s

\* std::list::push_back(value)
ListPushBack(s, v) == Append(s, v)

ClientMayCall == notify_pc = "idle" /\ ~crashed /\ ops < MaxOps

\* Publisher::Attach(observer), as Observer's constructor and clients call it.
Attach(o) ==
    /\ ClientMayCall
    /\ Len(list_observer_) < MaxList
    /\ list_observer_' = ListPushBack(list_observer_, o)
    /\ subscriptions' = Append(subscriptions, o)
    /\ removed' = removed \ {o}
    /\ last_op' = [op |-> "Attach", arg |-> o, from |-> Client,
                   pre |-> list_observer_, premsg |-> message_]
    /\ ops' = ops + 1
    /\ UNCHANGED <<message_, message_from_publisher_, notify_pc, iterator,
                   deliveries, crashed, ub, notify_call>>
    /\ UNCHANGED <<singletonVars, flyweightVars, prototypeVars,
                   commandVars, strategyVars, decoratorVars>>

\* Publisher::Detach(observer), as Observer::RemoveMeFromTheList and clients
\* call it while no Notify is running.
Detach(o) ==
    /\ ClientMayCall
    /\ list_observer_' = ListRemove(list_observer_, o)
    /\ subscriptions' = SelectSeq(subscriptions, LAMBDA x : x # o)
    /\ removed' = IF o \in Range(list_observer_) THEN removed \cup {o} ELSE removed
    /\ last_op' = [op |-> "Detach", arg |-> o, from |-> Client,
                   pre |-> list_observer_, premsg |-> message_]
    /\ ops' = ops + 1
    /\ UNCHANGED <<message_, message_from_publisher_, notify_pc, iterator,
                   deliveries, crashed, ub, notify_call>>
    /\ UNCHANGED <<singletonVars, flyweightVars, prototypeVars,
                   commandVars, strategyVars, decoratorVars>>

\* list_observer_.begin()
ListBegin == 1

\* list_observer_.end(), the position after the last node
ListEnd == Len(list_observer_) + 1

\* Notify's first statement: iterator = list_observer_.begin().
NotifyBegin(text) ==
    /\ iterator' = ListBegin
    /\ notify_pc' = "loop"
    /\ deliveries' = <<>>
    /\ notify_call' = [started |-> TRUE, list |-> subscriptions, text |-> text, cb |-> {}]

\* Publisher::Notify()
Notify ==
    /\ ClientMayCall
    /\ NotifyBegin(NoValue)
    /\ last_op' = [op |-> "Notify", arg |-> NoValue, from |-> Client,
                   pre |-> list_observer_, premsg |-> message_]
    /\ ops' = ops + 1
    /\ UNCHANGED <<list_observer_, message_, message_from_publisher_, crashed, ub,
                   subscriptions, removed>>
    /\ UNCHANGED <<singletonVars, flyweightVars, prototypeVars,
                   commandVars, strategyVars, decoratorVars>>

\* Publisher::CreateMessage(message): this->message_ = message; Notify();
CreateMessage(m) ==
    /\ ClientMayCall
    /\ message_' = m
    /\ NotifyBegin(m)
    /\ last_op' = [op |-> "CreateMessage", arg |-> m, from |-> Client,
                   pre |-> list_observer_, premsg |-> message_]
    /\ ops' = ops + 1
    /\ UNCHANGED <<list_observer_, message_from_publisher_, crashed, ub,
                   subscriptions, removed>>
    /\ UNCHANGED <<singletonVars, flyweightVars, prototypeVars,
                   commandVars, strategyVars, decoratorVars>>

\* Observer::Update(message): message_from_publisher_ = message; PrintInfo();
Update(o) ==
    /\ message_from_publisher_' = [message_from_publisher_ EXCEPT ![o] = message_]
    /\ deliveries' = Append(deliveries, <<o, message_>>)

\* One pass of Notify's loop body for an observer whose Update changes no
\* subscription: (*iterator)->Update(message_); ++iterator;
NotifyStep ==
    /\ notify_pc = "loop" /\ ~crashed
    /\ iterator # ListEnd
    /\ Update(list_observer_[iterator])
    /\ iterator' = iterator + 1
    /\ last_op' = [op |-> "Update", arg |-> list_observer_[iterator], from |-> Client,
                   pre |-> list_observer_, premsg |-> message_]
    /\ UNCHANGED <<list_observer_, message_, notify_pc, crashed, ub, subscriptions,
                   removed, notify_call, ops>>
    /\ UNCHANGED <<singletonVars, flyweightVars, prototypeVars,
                   commandVars, strategyVars, decoratorVars>>

\* A Detach made during Notify that leaves the running iteration as it was.
NotifyStepDetachOtherStale(x) ==
    /\ notify_pc = "loop" /\ ~crashed
    /\ iterator # ListEnd
    /\ x # list_observer_[iterator]
    /\ Update(list_observer_[iterator])
    /\ iterator' = iterator + 1
    /\ subscriptions' = SelectSeq(subscriptions, LAMBDA y : y # x)
    /\ removed' = IF x \in Range(list_observer_) THEN removed \cup {x} ELSE removed
    /\ notify_call' = [notify_call EXCEPT
                         !.cb = @ \cup {<<list_observer_[iterator], x>>}]
    /\ last_op' = [op |-> "Detach", arg |-> x, from |-> list_observer_[iterator],
                   pre |-> list_observer_, premsg |-> message_]
    /\ UNCHANGED <<list_observer_, message_, notify_pc, crashed, ub, ops>>
    /\ UNCHANGED <<singletonVars, flyweightVars, prototypeVars,
                   commandVars, strategyVars, decoratorVars>>

\* One pass of Notify's loop body for an observer whose Update detaches
\* another observer x: std::list::remove erases x's nodes and leaves the
\* iterator on its own node, which ++iterator then leaves.
NotifyStepDetachOther(x) ==
    /\ notify_pc = "loop" /\ ~crashed
    /\ iterator # ListEnd
    /\ x # list_observer_[iterator]
    /\ Update(list_observer_[iterator])
    /\ list_observer_' = ListRemove(list_observer_, x)
    /\ iterator' = (iterator - Count(SubSeq(list_observer_, 1, iterator - 1), x)) + 1
    /\ subscriptions' = SelectSeq(subscriptions, LAMBDA y : y # x)
    /\ removed' = IF x \in Range(list_observer_) THEN removed \cup {x} ELSE removed
    /\ notify_call' = [notify_call EXCEPT
                         !.cb = @ \cup {<<list_observer_[iterator], x>>}]
    /\ last_op' = [op |-> "Detach", arg |-> x, from |-> list_observer_[iterator],
                   pre |-> list_observer_, premsg |-> message_]
    /\ UNCHANGED <<message_, notify_pc, crashed, ub, ops>>
    /\ UNCHANGED <<singletonVars, flyweightVars, prototypeVars,
                   commandVars, strategyVars, decoratorVars>>

\* One pass of Notify's loop body for an observer that detaches itself in its
\* Update (RemoveMeFromTheList): the iterator's node is erased and freed, and
\* ++iterator reads the freed node.  The behaviour is undefined: the iterator
\* ends on any node still in the list or on end(), or the program crashes.
NotifyStepDetachSelf(outcome) ==
    /\ notify_pc = "loop" /\ ~crashed
    /\ iterator # ListEnd
    /\ Update(list_observer_[iterator])
    /\ list_observer_' = ListRemove(list_observer_, list_observer_[iterator])
    /\ outcome \in (1..(Len(list_observer_') + 1)) \cup {0}
    /\ iterator' = outcome
    /\ crashed' = (outcome = 0)
    /\ ub' = TRUE
    /\ subscriptions' = SelectSeq(subscriptions, LAMBDA y : y # list_observer_[iterator])
    /\ removed' = removed \cup {list_observer_[iterator]}
    /\ notify_call' = [notify_call EXCEPT
                         !.cb = @ \cup {<<list_observer_[iterator], list_observer_[iterator]>>}]
    /\ last_op' = [op |-> "Detach", arg |-> list_observer_[iterator],
                   from |-> list_observer_[iterator],
                   pre |-> list_observer_, premsg |-> message_]
    /\ UNCHANGED <<message_, notify_pc, ops>>
    /\ UNCHANGED <<singletonVars, flyweightVars, prototypeVars,
                   commandVars, strategyVars, decoratorVars>>

\* while (iterator != list_observer_.end()) fails: Notify returns.
NotifyReturn ==
    /\ notify_pc = "loop" /\ ~crashed
    /\ iterator = ListEnd
    /\ notify_pc' = "idle"
    /\ iterator' = 0
    /\ UNCHANGED <<list_observer_, message_, message_from_publisher_, deliveries,
                   crashed, ub, subscriptions, removed, notify_call, last_op, ops>>
    /\ UNCHANGED <<singletonVars, flyweightVars, prototypeVars,
                   commandVars, strategyVars, decoratorVars>>

NextObserver ==
    \/ \E o \in Observers : Attach(o)
    \/ \E o \in Observers : Detach(o)
    \/ Notify
    \/ \E m \in Messages : CreateMessage(m)
    \/ NotifyStep
    \/ \E x \in Observers : NotifyStepDetachOther(x)
    \/ \E outcome \in 0..(MaxList + 1) : NotifyStepDetachSelf(outcome)
    \/ NotifyReturn

(***************************************************************************)
(* Flyweight                                                               *)
(***************************************************************************)
\* Strings are sequences of characters; the field values requested.
Brands == {<<>>, <<"_">>}
Models == {<<>>, <<"_">>}
Colors == {<<"r">>}

\* struct SharedState { brand_, model_, color_ }
SharedStates == [brand_ : Brands, model_ : Models, color_ : Colors]

\* struct UniqueState { owner_, plates_ }
UniqueStates == [owner_ : {"James Doe"}, plates_ : {"CL234IR", "CA123ON"}]

\* Sequences over S of length at most n.
SeqsUpTo(S, n) == UNION {[1..k -> S] : k \in 0..n}

InitFlyweight ==
    /\ ff_constructed = FALSE
    /\ flyweights_ = {}
    /\ ss_heap = <<>>
    /\ fw_heap = <<>>
    /\ results = <<>>
    /\ requested = {}
    /\ ff_last = [op |-> "none", unique_state |-> <<>>, output |-> <<>>]

\* ss.brand_ + "_" + ss.model_ + "_" + ss.color_
GetKey(ss) == ss.brand_ \o <<"_">> \o ss.model_ \o <<"_">> \o ss.color_

\* flyweights_.find(key) != flyweights_.end()
MapContains(m, key) == \E e \in m : e.key = key

\* flyweights_.at(key): the Flyweight stored under key
MapAt(m, key) == (CHOOSE e \in m : e.key = key).value

\* An insert that drops the nodes of the other keys.
MapInsertEvicting(m, key, value) ==
    IF MapContains(m, key) THEN m ELSE {[key |-> key, value |-> value]}

\* An insert that adds a node also when the key is present.
MapInsertAlways(m, key, value) == m \cup {[key |-> key, value |-> value]}

\* std::unordered_map::insert: adds the node unless the key is present.
MapInsert(m, key, value) ==
    IF MapContains(m, key) THEN m ELSE m \cup {[key |-> key, value |-> value]}

\* The heaps after Flyweight's constructors, which both allocate a copy of
\* the given state: shared_state_(new SharedState(*shared_state)).  The new
\* Flyweight is the last of fw, the new SharedState the last of ss.
NewFlyweight(h, state) ==
    [ss |-> Append(h.ss, state),
     fw |-> Append(h.fw, [shared_state_ |-> Len(h.ss) + 1])]

\* insert(make_pair(GetKey(ss), Flyweight(&ss))): a Flyweight is constructed
\* from ss and offered to the map; when the map takes no new node it is
\* destroyed again with the full expression, which frees its SharedState.
\* f is the factory: its map and the heaps.
InsertFlyweight(f, ss) ==
    LET h == NewFlyweight(f, ss)
        m == MapInsert(f.map, GetKey(ss), Len(h.fw))
    IN  IF m = f.map THEN f ELSE [map |-> m, ss |-> h.ss, fw |-> h.fw]

\* for (const SharedState& ss : share_states) flyweights_.insert(...)
RECURSIVE InsertAll(_, _)
InsertAll(f, share_states) ==
    IF share_states = <<>> THEN f
    ELSE InsertAll(InsertFlyweight(f, Head(share_states)), Tail(share_states))

\* FlyweightFactory::FlyweightFactory(std::initializer_list<SharedState>)
NewFactory(share_states) ==
    /\ ~ff_constructed
    /\ LET f == InsertAll([map |-> {}, ss |-> <<>>, fw |-> <<>>], share_states)
       IN  /\ flyweights_' = f.map
           /\ ss_heap' = f.ss
           /\ fw_heap' = f.fw
    /\ ff_constructed' = TRUE
    /\ requested' = Range(share_states)
    /\ ff_last' = [op |-> "FlyweightFactory", unique_state |-> <<>>, output |-> <<>>]
    /\ UNCHANGED results
    /\ UNCHANGED <<singletonVars, observerVars, prototypeVars,
                   commandVars, strategyVars, decoratorVars>>

\* FlyweightFactory::GetFlyweight(shared_state): inserts a Flyweight under the
\* key when find() fails; returns flyweights_.at(key) by value, that is a
\* Flyweight made by the copy constructor, which allocates a SharedState of
\* its own.
GetFlyweight(shared_state) ==
    /\ ff_constructed
    /\ Len(results) < MaxRequests
    /\ LET key == GetKey(shared_state)
           f == IF ~MapContains(flyweights_, key)
                THEN InsertFlyweight(
                        [map |-> flyweights_, ss |-> ss_heap, fw |-> fw_heap],
                        shared_state)
                ELSE [map |-> flyweights_, ss |-> ss_heap, fw |-> fw_heap]
           cached == MapAt(f.map, key)
           h == NewFlyweight(f, f.ss[f.fw[cached].shared_state_])
       IN  /\ flyweights_' = f.map
           /\ ss_heap' = h.ss
           /\ fw_heap' = h.fw
           /\ results' = Append(results,
                 [request |-> shared_state, key |-> key, hit |-> MapContains(flyweights_, key),
                  flyweight |-> Len(h.fw), cached |-> cached])
    /\ requested' = requested \cup {shared_state}
    /\ ff_last' = [op |-> "GetFlyweight", unique_state |-> <<>>, output |-> <<>>]
    /\ UNCHANGED ff_constructed
    /\ UNCHANGED <<singletonVars, observerVars, prototypeVars,
                   commandVars, strategyVars, decoratorVars>>

\* Flyweight::Operation(unique_state) on the Flyweight the last GetFlyweight
\* call returned, as in AddCarToDatabase: prints the stored shared state and
\* the unique state, which it takes by const reference.
FlyweightOperation(unique_state) ==
    /\ results # <<>>
    /\ LET flyweight == results[Len(results)].flyweight
       IN  ff_last' = [op |-> "Operation", unique_state |-> unique_state,
                       output |-> <<ss_heap[fw_heap[flyweight].shared_state_],
                                    unique_state>>]
    /\ UNCHANGED <<ff_constructed, flyweights_, ss_heap, fw_heap, results, requested>>
    /\ UNCHANGED <<singletonVars, observerVars, prototypeVars,
                   commandVars, strategyVars, decoratorVars>>

\* FlyweightFactory::ListFlyweights(): prints the number of entries and the
\* keys, in the map's order, which is unspecified.  The loop variable is a
\* copy of each pair, destroyed at the end of its iteration.
ListFlyweights ==
    /\ ff_constructed
    /\ ff_last' = [op |-> "ListFlyweights", unique_state |-> <<>>,
                   output |-> <<Cardinality(flyweights_),
                                {pair.key : pair \in flyweights_}>>]
    /\ UNCHANGED <<ff_constructed, flyweights_, ss_heap, fw_heap, results, requested>>
    /\ UNCHANGED <<singletonVars, observerVars, prototypeVars,
                   commandVars, strategyVars, decoratorVars>>

NextFlyweight ==
    \/ \E share_states \in SeqsUpTo(SharedStates, MaxInit) : NewFactory(share_states)
    \/ \E shared_state \in SharedStates : GetFlyweight(shared_state)
    \/ \E unique_state \in UniqueStates : FlyweightOperation(unique_state)
    \/ ListFlyweights

(***************************************************************************)
(* Prototype                                                               *)
(***************************************************************************)
\* enum Type { PROTOTYPE_1 = 0, PROTOTYPE_2 }
PROTOTYPE_1 == 0
PROTOTYPE_2 == 1
\* The tags a caller can pass: the two enumerators and one value that names
\* no registered prototype.
TypeValues == {PROTOTYPE_1, PROTOTYPE_2, PROTOTYPE_2 + 1}
\* The arguments the client gives to Method.
FieldValues == {10, 90}

\* ConcretePrototype1("PROTOTYPE_1 ", 50.f)
NewConcretePrototype1 ==
    [variant |-> "ConcretePrototype1", prototype_name_ |-> "PROTOTYPE_1 ",
     prototype_field_ |-> 0, concrete_prototype_field_ |-> 50]

\* ConcretePrototype2("PROTOTYPE_2 ", 60.f)
NewConcretePrototype2 ==
    [variant |-> "ConcretePrototype2", prototype_name_ |-> "PROTOTYPE_2 ",
     prototype_field_ |-> 0, concrete_prototype_field_ |-> 60]

\* The state PrototypeFactory's constructor leaves.
InitPrototype ==
    /\ proto_heap = (1 :> NewConcretePrototype1) @@ (2 :> NewConcretePrototype2)
    /\ prototypes_ = (PROTOTYPE_1 :> 1) @@ (PROTOTYPE_2 :> 2)
    /\ proto_next = 3
    /\ clones = {}
    /\ proto_result = [type |-> NoValue, outcome |-> "none", ptr |-> nullptr]
    /\ proto_crashed = FALSE
    /\ proto_last = [op |-> "none", obj |-> nullptr, src |-> nullptr,
                     pre |-> proto_heap]
    /\ clone_of = <<>>

\* std::unordered_map::operator[]: a key that is absent is inserted with a
\* value-initialized mapped value, here a null pointer.
MapIndex(m, type) == IF type \in DOMAIN m THEN m ELSE m @@ (type :> nullptr)

\* A Clone that constructs the variant anew instead of copying *this.
CloneFresh(p) ==
    /\ proto_heap' = proto_heap @@
          (proto_next :> [proto_heap[p] EXCEPT !.prototype_field_ = 0])
    /\ proto_next' = proto_next + 1
    /\ clones' = clones \cup {proto_next}

\* ConcretePrototype1::Clone / ConcretePrototype2::Clone: new
\* ConcretePrototypeN(*this), the implicit copy constructor copying each field.
Clone(p) ==
    /\ proto_heap' = proto_heap @@ (proto_next :> proto_heap[p])
    /\ proto_next' = proto_next + 1
    /\ clones' = clones \cup {proto_next}

\* History of a Clone() call on p: what was cloned, and the heap before.
CloneHistory(p) ==
    /\ proto_last' = [op |-> "Clone", obj |-> proto_next, src |-> p,
                      pre |-> proto_heap]
    /\ clone_of' = clone_of @@ (proto_next :> [src |-> p, fields |-> proto_heap[p]])

ProtoMayCall == ~proto_crashed

\* PrototypeFactory::CreatePrototype(type) for a type whose entry holds a
\* prototype: return prototypes_[type]->Clone();
CreatePrototype(type) ==
    /\ ProtoMayCall
    /\ proto_next < 3 + MaxClones
    /\ prototypes_' = MapIndex(prototypes_, type)
    /\ prototypes_'[type] # nullptr
    /\ Clone(prototypes_'[type])
    /\ CloneHistory(prototypes_'[type])
    /\ proto_result' = [type |-> type, outcome |-> "clone", ptr |-> proto_next]
    /\ UNCHANGED proto_crashed
    /\ UNCHANGED <<singletonVars, observerVars, flyweightVars,
                   commandVars, strategyVars, decoratorVars>>

\* PrototypeFactory::CreatePrototype(type) for a type with no prototype:
\* operator[] inserts a null pointer and ->Clone() is called through it.  The
\* behaviour is undefined: the program crashes on the null pointer, or the
\* call returns a pointer that is no Prototype.
CreatePrototypeNull(type, outcome) ==
    /\ ProtoMayCall
    /\ prototypes_' = MapIndex(prototypes_, type)
    /\ prototypes_'[type] = nullptr
    /\ outcome \in {"crash", "garbage"}
    /\ proto_crashed' = (outcome = "crash")
    /\ proto_result' = [type |-> type, outcome |-> outcome, ptr |-> nullptr]
    /\ proto_last' = [op |-> "CreatePrototype", obj |-> nullptr, src |-> nullptr,
                      pre |-> proto_heap]
    /\ UNCHANGED <<proto_heap, proto_next, clones, clone_of>>
    /\ UNCHANGED <<singletonVars, observerVars, flyweightVars,
                   commandVars, strategyVars, decoratorVars>>

\* Prototype::Method(prototype_field) on a clone the client holds.
Method(c, prototype_field) ==
    /\ ProtoMayCall
    /\ c \in clones
    /\ proto_heap' = [proto_heap EXCEPT ![c].prototype_field_ = prototype_field]
    /\ proto_last' = [op |-> "Method", obj |-> c, src |-> prototype_field,
                      pre |-> proto_heap]
    /\ UNCHANGED <<prototypes_, proto_next, clones, proto_result, proto_crashed,
                   clone_of>>
    /\ UNCHANGED <<singletonVars, observerVars, flyweightVars,
                   commandVars, strategyVars, decoratorVars>>

\* delete prototype; by the client, of a clone it holds.
DeleteClone(c) ==
    /\ ProtoMayCall
    /\ c \in clones
    /\ proto_heap' = [a \in DOMAIN proto_heap \ {c} |-> proto_heap[a]]
    /\ clones' = clones \ {c}
    /\ proto_last' = [op |-> "delete", obj |-> c, src |-> nullptr,
                      pre |-> proto_heap]
    /\ UNCHANGED <<prototypes_, proto_next, proto_result, proto_crashed, clone_of>>
    /\ UNCHANGED <<singletonVars, observerVars, flyweightVars,
                   commandVars, strategyVars, decoratorVars>>

\* prototype->Clone() by the client, on a clone it holds.
ClientClone(c) ==
    /\ ProtoMayCall
    /\ proto_next < 3 + MaxClones
    /\ c \in clones
    /\ Clone(c)
    /\ CloneHistory(c)
    /\ UNCHANGED <<prototypes_, proto_result, proto_crashed>>
    /\ UNCHANGED <<singletonVars, observerVars, flyweightVars,
                   commandVars, strategyVars, decoratorVars>>

NextPrototype ==
    \/ \E type \in TypeValues : CreatePrototype(type)
    \/ \E type \in TypeValues, outcome \in {"crash", "garbage"} :
          CreatePrototypeNull(type, outcome)
    \/ \E c \in clones, x \in FieldValues : Method(c, x)
    \/ \E c \in clones : DeleteClone(c)
    \/ \E c \in clones : ClientClone(c)

(***************************************************************************)
(* Command                                                                 *)
(***************************************************************************)
\* The value of a pointer member that no constructor has initialized and
\* that happens not to be null.
Indeterminate == -1
\* The Receiver objects of the client.
Receivers == {"receiver"}
\* The strings the client gives to the commands' constructors.
PayLoads == {"Say Hi!"}
ContextData == {"Send email", "Save report"}

Event(who, what, text) == [who |-> who, what |-> what, text |-> text]

InitCommand ==
    /\ inv_constructed = FALSE
    /\ on_start_ = nullptr
    /\ on_finish_ = nullptr
    /\ commands = <<>>
    /\ cmd_log = <<>>
    /\ cmd_crashed = FALSE
    /\ cmd_ub = FALSE
    /\ made = <<>>
    /\ slot_set = {}
    /\ called_with = [called |-> FALSE, start |-> nullptr, finish |-> nullptr,
                      bound |-> {}]

CommandMayCall == inv_constructed /\ ~cmd_crashed

\* new Invoker: Invoker declares no constructor, so on_start_ and on_finish_
\* are left uninitialized; each holds whatever the storage held, null or not.
NewInvoker(start, finish) ==
    /\ ~inv_constructed
    /\ start \in {nullptr, Indeterminate}
    /\ finish \in {nullptr, Indeterminate}
    /\ inv_constructed' = TRUE
    /\ on_start_' = start
    /\ on_finish_' = finish
    /\ UNCHANGED <<commands, cmd_log, cmd_crashed, cmd_ub, made, slot_set,
                   called_with>>
    /\ UNCHANGED <<singletonVars, observerVars, flyweightVars, prototypeVars,
                   strategyVars, decoratorVars>>

\* new SimpleCommand(pay_load)
NewSimpleCommand(pay_load) ==
    /\ ~cmd_crashed
    /\ Len(commands) < MaxCommands
    /\ commands' = Append(commands, [kind |-> "SimpleCommand", pay_load_ |-> pay_load])
    /\ made' = Append(made, [kind |-> "SimpleCommand", pay_load |-> pay_load])
    /\ UNCHANGED <<inv_constructed, on_start_, on_finish_, cmd_log, cmd_crashed,
                   cmd_ub, slot_set, called_with>>
    /\ UNCHANGED <<singletonVars, observerVars, flyweightVars, prototypeVars,
                   strategyVars, decoratorVars>>

\* new ComplexCommand(receiver, a, b)
NewComplexCommand(receiver, a, b) ==
    /\ ~cmd_crashed
    /\ Len(commands) < MaxCommands
    /\ commands' = Append(commands,
          [kind |-> "ComplexCommand", receiver_ |-> receiver, a_ |-> a, b_ |-> b])
    /\ made' = Append(made,
          [kind |-> "ComplexCommand", receiver |-> receiver, a |-> a, b |-> b])
    /\ UNCHANGED <<inv_constructed, on_start_, on_finish_, cmd_log, cmd_crashed,
                   cmd_ub, slot_set, called_with>>
    /\ UNCHANGED <<singletonVars, observerVars, flyweightVars, prototypeVars,
                   strategyVars, decoratorVars>>

\* Invoker::SetOnStart(command)
SetOnStart(command) ==
    /\ CommandMayCall
    /\ on_start_' = command
    /\ slot_set' = slot_set \cup {"on_start_"}
    /\ UNCHANGED <<inv_constructed, on_finish_, commands, cmd_log, cmd_crashed,
                   cmd_ub, made, called_with>>
    /\ UNCHANGED <<singletonVars, observerVars, flyweightVars, prototypeVars,
                   strategyVars, decoratorVars>>

\* Invoker::SetOnFinish(command)
SetOnFinish(command) ==
    /\ CommandMayCall
    /\ on_finish_' = command
    /\ slot_set' = slot_set \cup {"on_finish_"}
    /\ UNCHANGED <<inv_constructed, on_start_, commands, cmd_log, cmd_crashed,
                   cmd_ub, made, called_with>>
    /\ UNCHANGED <<singletonVars, observerVars, flyweightVars, prototypeVars,
                   strategyVars, decoratorVars>>

\* SimpleCommand::Execute prints its pay_load_; ComplexCommand::Execute
\* prints, then calls receiver_->DoSomething(a_) and
\* receiver_->DoSomethingElse(b_).  What the call does, in order.
Execute(c) ==
    IF c.kind = "SimpleCommand"
    THEN <<Event("SimpleCommand", "print", c.pay_load_)>>
    ELSE <<Event("ComplexCommand", "print", ""),
           Event(c.receiver_, "DoSomething", c.a_),
           Event(c.receiver_, "DoSomethingElse", c.b_)>>

\* if (slot) slot->Execute(); for a slot that is null or holds a Command.
RunSlot(slot) == IF slot = nullptr THEN <<>> ELSE Execute(commands[slot])

\* History: the slots a DoSomethingImportant call starts with.
CalledWith ==
    called_with' = [called |-> TRUE, start |-> on_start_, finish |-> on_finish_,
                    bound |-> slot_set]

InvokerBegins == <<Event("Invoker", "print", "before I begin")>>
InvokerWorks == <<Event("Invoker", "print", "doing something really important"),
                  Event("Invoker", "print", "after I finish")>>

\* A DoSomethingImportant that runs on_finish_ first.
DoSomethingImportantReversed ==
    /\ CommandMayCall
    /\ on_start_ # Indeterminate /\ on_finish_ # Indeterminate
    /\ CalledWith
    /\ cmd_log' = InvokerBegins \o RunSlot(on_finish_) \o InvokerWorks
                      \o RunSlot(on_start_)
    /\ UNCHANGED <<inv_constructed, on_start_, on_finish_, commands, cmd_crashed,
                   cmd_ub, made, slot_set>>
    /\ UNCHANGED <<singletonVars, observerVars, flyweightVars, prototypeVars,
                   strategyVars, decoratorVars>>

\* Invoker::DoSomethingImportant() when each slot is null or holds a Command.
DoSomethingImportant ==
    /\ CommandMayCall
    /\ on_start_ # Indeterminate /\ on_finish_ # Indeterminate
    /\ CalledWith
    /\ cmd_log' = InvokerBegins \o RunSlot(on_start_) \o InvokerWorks
                      \o RunSlot(on_finish_)
    /\ UNCHANGED <<inv_constructed, on_start_, on_finish_, commands, cmd_crashed,
                   cmd_ub, made, slot_set>>
    /\ UNCHANGED <<singletonVars, observerVars, flyweightVars, prototypeVars,
                   strategyVars, decoratorVars>>

InvalidExecute == <<Event("invalid pointer", "Execute", "")>>

\* Invoker::DoSomethingImportant() when a slot holds an indeterminate value
\* that is not null: the test passes and Execute() is called through it.  The
\* behaviour is undefined: the program crashes there, or the call does
\* something that is no command's Execute and returns.
DoSomethingImportantInvalid(outcome) ==
    /\ CommandMayCall
    /\ on_start_ = Indeterminate \/ on_finish_ = Indeterminate
    /\ outcome \in {"crash", "garbage"}
    /\ CalledWith
    /\ cmd_ub' = TRUE
    /\ cmd_crashed' = (outcome = "crash")
    /\ cmd_log' =
          IF on_start_ = Indeterminate
          THEN IF outcome = "crash"
               THEN InvokerBegins \o InvalidExecute
               ELSE InvokerBegins \o InvalidExecute \o InvokerWorks
                       \o (IF on_finish_ = Indeterminate THEN InvalidExecute
                           ELSE RunSlot(on_finish_))
          ELSE InvokerBegins \o RunSlot(on_start_) \o InvokerWorks
                  \o InvalidExecute
    /\ UNCHANGED <<inv_constructed, on_start_, on_finish_, commands, made, slot_set>>
    /\ UNCHANGED <<singletonVars, observerVars, flyweightVars, prototypeVars,
                   strategyVars, decoratorVars>>

NextCommand ==
    \/ \E start, finish \in {nullptr, Indeterminate} : NewInvoker(start, finish)
    \/ \E pay_load \in PayLoads : NewSimpleCommand(pay_load)
    \/ \E receiver \in Receivers, a, b \in ContextData :
          NewComplexCommand(receiver, a, b)
    \/ \E command \in 1..Len(commands) : SetOnStart(command)
    \/ \E command \in 1..Len(commands) : SetOnFinish(command)
    \/ DoSomethingImportant
    \/ \E outcome \in {"crash", "garbage"} : DoSomethingImportantInvalid(outcome)

(***************************************************************************)
(* Strategy                                                                *)
(***************************************************************************)
\* The concrete strategies; an empty std::unique_ptr<Strategy> is nullptr.
ConcreteStrategyA == 1
ConcreteStrategyB == 2
Strategies == {ConcreteStrategyA, ConcreteStrategyB}
\* Characters are their codes: 'a' is 97, 'b' is 98.
Chars == {97, 98}
\* "haegicbjdf", the text of clientCode.
ClientText == <<104, 97, 101, 103, 105, 99, 98, 106, 100, 102>>
\* The texts given to doSomeBusinessLogic.
Texts == {ClientText} \cup UNION {[1..n -> Chars] : n \in 0..MaxText}

Line(text, data) == [text |-> text, data |-> data]

InitStrategy ==
    /\ ctx_constructed = FALSE
    /\ strategy_ = nullptr
    /\ ctx_output = <<>>
    /\ ctx_given = <<>>
    /\ ctx_last = [called |-> FALSE, text |-> <<>>, given |-> <<>>,
                   invoked |-> <<>>, after_unset |-> FALSE]

\* Context::Context(std::unique_ptr<Strategy>&& strategy = {})
NewContext(strategy) ==
    /\ ~ctx_constructed
    /\ ctx_constructed' = TRUE
    /\ strategy_' = strategy
    /\ ctx_given' = <<strategy>>
    /\ UNCHANGED <<ctx_output, ctx_last>>
    /\ UNCHANGED <<singletonVars, observerVars, flyweightVars, prototypeVars,
                   commandVars, decoratorVars>>

\* A set_strategy that keeps the held strategy when given an empty pointer.
AssignKeepIfEmpty(held, strategy) == IF strategy = nullptr THEN held ELSE strategy

\* strategy_ = std::move(strategy): the held strategy is destroyed and
\* replaced by the given one, empty or not.
Assign(held, strategy) == strategy

\* Context::set_strategy(std::unique_ptr<Strategy>&& strategy)
set_strategy(strategy) ==
    /\ ctx_constructed
    /\ Len(ctx_given) < MaxSets
    /\ strategy_' = Assign(strategy_, strategy)
    /\ ctx_given' = Append(ctx_given, strategy)
    /\ UNCHANGED <<ctx_constructed, ctx_output, ctx_last>>
    /\ UNCHANGED <<singletonVars, observerVars, flyweightVars, prototypeVars,
                   commandVars, decoratorVars>>

\* std::less<>() and std::greater<>() on two characters.
Compare(comp, a, b) == IF comp = "std::less" THEN a < b ELSE a > b

\* An insertion that drops a character equal to one already placed.
RECURSIVE InsertUnique(_, _, _)
InsertUnique(c, sorted, comp) ==
    IF sorted = <<>> THEN <<c>>
    ELSE IF c = Head(sorted) THEN sorted
    ELSE IF Compare(comp, c, Head(sorted)) THEN <<c>> \o sorted
    ELSE <<Head(sorted)>> \o InsertUnique(c, Tail(sorted), comp)

\* Place c in a sorted sequence, before the first element it precedes.
RECURSIVE Insert(_, _, _)
Insert(c, sorted, comp) ==
    IF sorted = <<>> THEN <<c>>
    ELSE IF Compare(comp, c, Head(sorted)) THEN <<c>> \o sorted
    ELSE <<Head(sorted)>> \o Insert(c, Tail(sorted), comp)

\* std::sort(std::begin(result), std::end(result), comp), computed by
\* insertion: the elements of result rearranged so that none is preceded,
\* under comp, by a later one.
RECURSIVE StdSort(_, _)
StdSort(result, comp) ==
    IF result = <<>> THEN <<>>
    ELSE Insert(Head(result), StdSort(Tail(result), comp), comp)

\* ConcreteStrategyA::doAlgorithm / ConcreteStrategyB::doAlgorithm
doAlgorithm(strategy, data) ==
    IF strategy = ConcreteStrategyA THEN StdSort(data, "std::less")
    ELSE StdSort(data, "std::greater")

SortingLine == Line("Context: Sorting data using the strategy (not sure how it will do it)", <<>>)
NotSetLine == Line("Context: Strategy isn't set", <<>>)

\* Context::doSomeBusinessLogic(text_to_sort)
doSomeBusinessLogic(text_to_sort) ==
    /\ ctx_constructed
    /\ ctx_output' =
          IF strategy_ # nullptr
          THEN <<SortingLine, Line("result", doAlgorithm(strategy_, text_to_sort))>>
          ELSE <<NotSetLine>>
    /\ ctx_last' = [called |-> TRUE, text |-> text_to_sort, given |-> ctx_given,
                    invoked |-> IF strategy_ # nullptr THEN <<strategy_>> ELSE <<>>,
                    after_unset |-> ctx_output = <<NotSetLine>>]
    /\ UNCHANGED <<ctx_constructed, strategy_, ctx_given>>
    /\ UNCHANGED <<singletonVars, observerVars, flyweightVars, prototypeVars,
                   commandVars, decoratorVars>>

NextStrategy ==
    \/ \E strategy \in Strategies \cup {nullptr} : NewContext(strategy)
    \/ \E strategy \in Strategies \cup {nullptr} : set_strategy(strategy)
    \/ \E text_to_sort \in Texts : doSomeBusinessLogic(text_to_sort)

(***************************************************************************)
(* Decorator                                                               *)
(***************************************************************************)
\* The concrete decorator classes.
Decorators == {"ConcreteDecoratorA", "ConcreteDecoratorB", "ConcreteDecoratorC"}

InitDecorator ==
    /\ components = <<>>
    /\ dec_result = [of |-> nullptr, value |-> <<>>]
    /\ wraps = <<>>

\* new ConcreteComponent
NewConcreteComponent ==
    /\ Len(components) < MaxComponents
    /\ components' = Append(components,
                            [class |-> "ConcreteComponent", component_ |-> nullptr])
    /\ wraps' = Append(wraps, <<>>)
    /\ UNCHANGED dec_result
    /\ UNCHANGED <<singletonVars, observerVars, flyweightVars, prototypeVars,
                   commandVars, strategyVars>>

\* new ConcreteDecoratorA(component), ...B(component), ...C(component):
\* Decorator::Decorator stores the pointer in component_.
NewDecorator(class, component) ==
    /\ Len(components) < MaxComponents
    /\ class \in Decorators
    /\ component \in 1..Len(components)
    /\ components' = Append(components, [class |-> class, component_ |-> component])
    /\ wraps' = Append(wraps, Append(wraps[component], class))
    /\ UNCHANGED dec_result
    /\ UNCHANGED <<singletonVars, observerVars, flyweightVars, prototypeVars,
                   commandVars, strategyVars>>

\* An Operation whose decorators take the base's result, not the result of
\* the component they wrap.
OperationOfBase(c) ==
    IF components[c].class = "ConcreteComponent"
    THEN <<"ConcreteComponent">>
    ELSE <<components[c].class, "(">> \o <<"ConcreteComponent">> \o <<")">>

\* Component::Operation() of the object at c, as a sequence of the pieces the
\* returned string is concatenated from: ConcreteComponent returns
\* "ConcreteComponent"; a concrete decorator returns its class name and "(",
\* then Decorator::Operation(), which is component_->Operation(), then ")".
RECURSIVE Operation(_)
Operation(c) ==
    IF components[c].class = "ConcreteComponent"
    THEN <<"ConcreteComponent">>
    ELSE <<components[c].class, "(">> \o Operation(components[c].component_) \o <<")">>

\* ClientCode(component): prints component->Operation().
ClientCode(component) ==
    /\ component \in 1..Len(components)
    /\ dec_result' = [of |-> component, value |-> Operation(component)]
    /\ UNCHANGED <<components, wraps>>
    /\ UNCHANGED <<singletonVars, observerVars, flyweightVars, prototypeVars,
                   commandVars, strategyVars>>

NextDecorator ==
    \/ NewConcreteComponent
    \/ \E class \in Decorators, component \in 1..Len(components) :
          NewDecorator(class, component)
    \/ \E component \in 1..Len(components) : ClientCode(component)

Init ==
    /\ InitSingleton /\ InitObserver /\ InitFlyweight /\ InitPrototype
    /\ InitCommand /\ InitStrategy /\ InitDecorator

SingletonSpec == Init /\ [][NextSingleton]_vars

SingletonFairSpec == Init /\ [][NextSingleton]_vars /\ FairScheduling

ObserverSpec == Init /\ [][NextObserver]_vars

FlyweightSpec == Init /\ [][NextFlyweight]_vars

PrototypeSpec == Init /\ [][NextPrototype]_vars

CommandSpec == Init /\ [][NextCommand]_vars

StrategySpec == Init /\ [][NextStrategy]_vars

DecoratorSpec == Init /\ [][NextDecorator]_vars

(***************************************************************************)
(* Properties of the Singleton                                              *)
(***************************************************************************)
\* The positions at which a thread reads or writes m_instance_ptr.
InGetInstance(t) == pc[t] \in {"check", "construct", "return"}

OneInstanceNow ==
    /\ Len(objects) <= 1
    /\ m_instance_ptr \in {nullptr} \cup (1..Len(objects))
    /\ \A t \in Threads : ret[t] \in {nullptr, m_instance_ptr}
    /\ \A t, u \in Threads :
          (ret[t] # nullptr /\ ret[u] # nullptr) => ret[t] = ret[u]

InstanceKept == m_instance_ptr # nullptr => m_instance_ptr' = m_instance_ptr

\* C1: under every interleaving of the threads' GetInstance calls the
\* Singleton constructor runs at most once, m_instance_ptr once non-null
\* never changes or returns to null, and every call returns the same instance.
C1_SingleInstance == []OneInstanceNow /\ [][InstanceKept]_vars

\* Two threads with different arguments have both returned, one instance.
C1_Witness ==
    \E t, u \in Threads :
        /\ t # u
        /\ arg[t] # arg[u]
        /\ ret[t] # nullptr
        /\ ret[u] = ret[t]
        /\ Len(objects) = 1

SameValueNow ==
    /\ \A t \in Threads :
          observed[t] # NoValue =>
              /\ Len(objects) = 1
              /\ observed[t] = objects[1].m_value
    /\ \A t, u \in Threads :
          (observed[t] # NoValue /\ observed[u] # NoValue) => observed[t] = observed[u]
    \* the stored value is the argument of the call that constructed
    /\ \A i \in 1..Len(objects) :
          calls[objects[i].by] = objects[i].call =>
              objects[i].m_value = arg[objects[i].by]

ValueKept ==
    m_instance_ptr # nullptr =>
        objects'[m_instance_ptr'].m_value = objects[m_instance_ptr].m_value

\* C2: GetInstance uses its argument only on the constructing call: every
\* caller reads the same Value(), the argument the constructing call stored,
\* and Value() never changes afterwards.
C2_ArgumentUsedOnce == []SameValueNow /\ [][ValueKept]_vars

\* Two threads read the same value although one passed another argument.
C2_Witness ==
    \E t, u \in Threads :
        /\ t # u
        /\ pc[t] = "idle" /\ pc[u] = "idle"
        /\ observed[t] # NoValue
        /\ observed[u] = observed[t]
        /\ arg[u] # observed[u]
        /\ arg[t] = observed[t]

\* C3: the check-and-create sequence is guarded by m_mutex: at most one
\* thread is between locking and unlocking, and a thread that reads or writes
\* m_instance_ptr owns the mutex.
C3_MutualExclusion ==
    /\ \A t \in Threads : InGetInstance(t) => m_mutex = t
    /\ Cardinality({t \in Threads : InGetInstance(t)}) <= 1
    /\ (m_mutex # NoThread) => InGetInstance(m_mutex)

\* One thread constructs while another waits for the mutex.
C3_Witness ==
    \E t, u \in Threads :
        /\ pc[t] = "construct"
        /\ pc[u] = "lock"
        /\ m_mutex = t

\* Thread t has made all its calls and is through with the last one.
ThreadDone(t) == pc[t] = "idle" /\ calls[t] = MaxCalls

\* C21: under fair scheduling every GetInstance call returns, the first
\* one and the later ones: a thread waiting for the mutex or owning it
\* comes to have the instance returned and the mutex released, a thread
\* owns the mutex at no time outside GetInstance, and in the end every
\* thread is done, which is when the driver's joins return.
C21_EveryCallReturns ==
    /\ \A t \in Threads :
          (pc[t] \in {"lock", "check", "construct", "return"})
              ~> (pc[t] = "value" /\ ret[t] # nullptr /\ m_mutex # t)
    /\ [](\A t \in Threads : pc[t] \in {"idle", "lock", "value"} => m_mutex # t)
    /\ <>[](m_mutex = NoThread /\ \A t \in Threads : ThreadDone(t))

\* Every thread is done, each call returned the instance, the mutex is free.
C21_Witness ==
    /\ \A t \in Threads : ThreadDone(t) /\ ret[t] = m_instance_ptr
    /\ m_instance_ptr # nullptr
    /\ m_mutex = NoThread
    /\ \E t \in Threads : objects[1].by # t

(***************************************************************************)
(* Properties of the Observer                                               *)
(***************************************************************************)
JustDetached == last_op.op = "Detach"

\* C4 as stated: Detach(observer) removes the first matching entry only, so
\* that an observer attached more than once keeps its other entries.
C4_DetachRemovesFirstOnly ==
    JustDetached => list_observer_ = ListRemoveFirst(last_op.pre, last_op.arg)

\* C4 as amended: Detach(observer) removes every entry equal to observer and
\* leaves the relative order of all remaining entries unchanged.
C4_DetachRemovesAll ==
    JustDetached =>
        /\ last_op.arg \notin Range(list_observer_)
        /\ list_observer_ = SelectSeq(last_op.pre, LAMBDA x : x # last_op.arg)
        /\ \A o \in Observers \ {last_op.arg} :
              Count(list_observer_, o) = Count(last_op.pre, o)

\* A Detach of an observer that was attached twice, with another between.
C4_Witness ==
    /\ JustDetached
    /\ Count(last_op.pre, last_op.arg) >= 2
    /\ Len(list_observer_) >= 1
    /\ Len(list_observer_) = Len(last_op.pre) - Count(last_op.pre, last_op.arg)

\* What a Notify call begun on the subscriptions l has to deliver.
Expected(l, m) == [i \in 1..Len(l) |-> <<l[i], m>>]

\* C5: after any sequence of Attach and Detach calls, a Notify call (also the
\* one CreateMessage(text) makes, with text as the message) delivers the
\* current message to every attached entry in Attach order, once per entry.
C5_NotifyInOrder ==
    (notify_call.started /\ notify_call.cb = {}) =>
        /\ ~crashed
        /\ notify_call.text # NoValue => message_ = notify_call.text
        /\ notify_pc = "loop" =>
              /\ iterator \in 1..(Len(notify_call.list) + 1)
              /\ deliveries =
                    Expected(SubSeq(notify_call.list, 1, iterator - 1), message_)
        /\ notify_pc = "idle" => deliveries = Expected(notify_call.list, message_)
        /\ \A i \in 1..Len(deliveries) :
              message_from_publisher_[deliveries[i][1]] = message_

\* [A,B,C] attached in order, B detached, then a Notify delivered to A, C.
C5_Witness ==
    /\ notify_pc = "idle"
    /\ notify_call.started /\ notify_call.cb = {}
    /\ notify_call.list = <<"A", "C">>
    /\ "B" \in removed
    /\ Len(deliveries) = 2
    /\ deliveries[1][1] = "A" /\ deliveries[2][1] = "C"
    /\ notify_call.text \in Messages

\* The step is an Update of observer o.
UpdateOf(o) ==
    /\ Len(deliveries') = Len(deliveries) + 1
    /\ deliveries'[Len(deliveries')][1] = o

\* C6: once Detach has removed an observer it receives no further Update
\* until it is attached again, in later Notify calls and in a Notify that was
\* in progress when another observer's Update made the Detach.
C6_NoUpdateAfterDetach == [][\A o \in removed : ~UpdateOf(o)]_vars

\* A Notify returned without an Update of x, which was subscribed when it
\* began and was detached by the Update of an observer in front of it.
C6_Witness ==
    /\ notify_pc = "idle" /\ ~crashed /\ ~ub
    /\ \E c \in notify_call.cb :
          /\ c[1] # c[2]
          /\ c[2] \in Range(notify_call.list)
          /\ c[2] \in removed
          /\ \A i \in 1..Len(deliveries) : deliveries[i][1] # c[2]
    /\ Len(deliveries) >= 2

\* C7: a Detach of an observer that is not in the list changes neither the
\* list nor the publisher's message and raises no error.
C7_DetachAbsentIsNoOp ==
    (JustDetached /\ last_op.arg \notin Range(last_op.pre)) =>
        /\ list_observer_ = last_op.pre
        /\ message_ = last_op.premsg
        /\ ~crashed

\* A Detach of an observer absent from a list that holds others.
C7_Witness ==
    /\ JustDetached
    /\ last_op.arg \notin Range(last_op.pre)
    /\ Len(last_op.pre) >= 2
    /\ last_op.from = Client

\* C19: a Notify call in which observers detach themselves during their own
\* Update, and nothing else changes the list, never advances an iterator to
\* an erased node, does not crash, and has delivered once to every entry of
\* the list it began with when it returns.
C19_SelfDetachIsWellDefined ==
    (/\ notify_call.started
     /\ notify_call.cb # {}
     /\ \A p \in notify_call.cb : p[1] = p[2]) =>
        /\ ~ub
        /\ ~crashed
        /\ notify_pc = "idle" => deliveries = Expected(notify_call.list, message_)

(***************************************************************************)
(* Properties of the Flyweight                                              *)
(***************************************************************************)
\* The shared state a Flyweight object stores.
StateOf(fw) == ss_heap[fw_heap[fw].shared_state_]

\* C8: two GetFlyweight requests with identical brand, model and color get
\* the same cached Flyweight object and the same stored SharedState object,
\* not separate copies.
C8_SameCachedObject ==
    \A i, j \in 1..Len(results) :
        results[i].request = results[j].request =>
            /\ results[i].flyweight = results[j].flyweight
            /\ fw_heap[results[i].flyweight].shared_state_
                  = fw_heap[results[j].flyweight].shared_state_

\* C9: the factory never holds two entries for the same key (nor for the
\* same brand, model and color), and never more entries than distinct
\* shared states requested so far, the constructor's list included.
C9_OneEntryPerKey ==
    /\ \A e1, e2 \in flyweights_ :
          (e1.key = e2.key \/ StateOf(e1.value) = StateOf(e2.value)) => e1 = e2
    /\ Cardinality(flyweights_) <= Cardinality(requested)
    /\ \A e \in flyweights_ : StateOf(e.value) \in requested

\* A state was in the constructor's list and then requested twice, and
\* another state was requested as well: two entries for three requests.
C9_Witness ==
    /\ Len(results) >= 2
    /\ results[1].request = results[2].request
    /\ results[1].hit /\ results[2].hit
    /\ Cardinality(flyweights_) = 2
    /\ Cardinality(requested) = 2

\* C20: the Flyweight a GetFlyweight call returns stores the requested
\* shared state, field by field, and two requested states with the same key
\* are the same state, fields that are empty or hold "_" included.
C20_KeyIsInjective ==
    /\ \A i \in 1..Len(results) : StateOf(results[i].flyweight) = results[i].request
    /\ \A s, t \in requested : GetKey(s) = GetKey(t) => s = t

\* The shared state a node of the map stores, before and after a step.
StoredState(e) == ss_heap[fw_heap[e.value].shared_state_]
StoredStateAfter(e) == ss_heap'[fw_heap'[e.value].shared_state_]

\* C17: a GetFlyweight call on a cached key leaves the map as it is; on a
\* key not cached it adds one node, under that key, storing the requested
\* state; in both cases the nodes already there keep their stored states.
\* Operation and ListFlyweights change neither the map nor a stored state
\* nor the unique state of the caller.
C17_CacheFrame ==
    [][/\ results' # results =>
            LET r == results'[Len(results')]
            IN  /\ IF MapContains(flyweights_, GetKey(r.request))
                   THEN flyweights_' = flyweights_
                   ELSE \E e \in flyweights_' \ flyweights_ :
                           /\ flyweights_' = flyweights_ \cup {e}
                           /\ e.key = GetKey(r.request)
                           /\ StoredStateAfter(e) = r.request
                /\ \A e \in flyweights_ :
                       e \in flyweights_' /\ StoredStateAfter(e) = StoredState(e)
       /\ ff_last'.op \in {"Operation", "ListFlyweights"} =>
            /\ flyweights_' = flyweights_
            /\ ss_heap' = ss_heap
            /\ fw_heap' = fw_heap
            /\ ff_last'.op = "Operation" =>
                   /\ ff_last'.output[2] = ff_last'.unique_state
                   /\ ff_last'.output[1] = StateOf(results[Len(results)].flyweight)
      ]_vars

\* Operation has been called on the Flyweight of a request that was not
\* cached and was added to a map holding another entry.
C17_Witness ==
    /\ results # <<>>
    /\ ~results[Len(results)].hit
    /\ Cardinality(flyweights_) >= 2
    /\ StoredState([value |-> results[Len(results)].cached])
          = results[Len(results)].request
    /\ ff_last.op = "Operation"

(***************************************************************************)
(* Properties of the Prototype                                              *)
(***************************************************************************)
\* C10: CreatePrototype of an unregistered tag ends in an explicit "unknown
\* prototype" failure: no null or garbage pointer is dereferenced and none
\* is returned to the caller.
C10_UnknownTypeFails ==
    (proto_result.outcome # "none"
        /\ proto_result.type \notin {PROTOTYPE_1, PROTOTYPE_2}) =>
        /\ proto_result.outcome = "unknown prototype"
        /\ ~proto_crashed
        /\ \A t \in DOMAIN prototypes_ : prototypes_[t] # nullptr

\* The objects alive before and after the last call.
Survivors == DOMAIN proto_heap \cap DOMAIN proto_last.pre

\* C11: Clone() on a concrete prototype P returns a new object Q, distinct
\* from P, of P's variant and with P's field values at that time; a later
\* Method call on P does not change Q and one on Q does not change P.
C11_CloneIsIndependentCopy ==
    /\ proto_last.op = "Clone" =>
          /\ proto_last.obj # proto_last.src
          /\ proto_last.obj \notin DOMAIN proto_last.pre
          /\ proto_heap[proto_last.obj] = proto_last.pre[proto_last.src]
          /\ \A a \in DOMAIN proto_last.pre : proto_heap[a] = proto_last.pre[a]
    /\ proto_last.op = "Method" =>
          /\ DOMAIN proto_heap = DOMAIN proto_last.pre
          /\ \A a \in Survivors \ {proto_last.obj} : proto_heap[a] = proto_last.pre[a]
          /\ proto_heap[proto_last.obj] =
                [proto_last.pre[proto_last.obj] EXCEPT
                    !.prototype_field_ = proto_last.src]
    /\ \A q \in DOMAIN clone_of \cap DOMAIN proto_heap :
          /\ q # clone_of[q].src
          /\ proto_heap[q].variant = clone_of[q].fields.variant
          /\ proto_heap[q].prototype_name_ = clone_of[q].fields.prototype_name_
          /\ proto_heap[q].concrete_prototype_field_
                = clone_of[q].fields.concrete_prototype_field_

\* Q was cloned from P after a Method call on P; then Method was called on P
\* again, and Q still has the values P had when it was cloned.
C11_Witness ==
    \E q \in clones :
        LET p == clone_of[q].src
        IN  /\ p \in clones
            /\ proto_last.op = "Method"
            /\ proto_last.obj = p
            /\ clone_of[q].fields.prototype_field_ # 0
            /\ proto_heap[p].prototype_field_ # clone_of[q].fields.prototype_field_
            /\ proto_heap[q] = clone_of[q].fields

\* C12: the registry holds exactly one prototype per tag, PROTOTYPE_1 and
\* PROTOTYPE_2 and no other entry, none null, each with the field values it
\* was constructed with; no call adds, removes or alters an entry.
C12_RegistryFixed ==
    /\ DOMAIN prototypes_ = {PROTOTYPE_1, PROTOTYPE_2}
    /\ \A t \in DOMAIN prototypes_ : prototypes_[t] # nullptr
    /\ prototypes_[PROTOTYPE_1] # prototypes_[PROTOTYPE_2]
    /\ proto_heap[prototypes_[PROTOTYPE_1]] = NewConcretePrototype1
    /\ proto_heap[prototypes_[PROTOTYPE_2]] = NewConcretePrototype2

(***************************************************************************)
(* Properties of the Command                                               *)
(***************************************************************************)
\* What Execute of a Command does, told from the arguments its constructor
\* was given.
ExpectedExecute(m) ==
    IF m.kind = "SimpleCommand"
    THEN <<Event("SimpleCommand", "print", m.pay_load)>>
    ELSE <<Event("ComplexCommand", "print", ""),
           Event(m.receiver, "DoSomething", m.a),
           Event(m.receiver, "DoSomethingElse", m.b)>>

\* What a slot contributes to a call when it holds a bound Command, and
\* nothing when it was never bound.
ExpectedSlot(name, slot) ==
    IF name \in called_with.bound THEN ExpectedExecute(made[slot]) ELSE <<>>

\* C13: in a DoSomethingImportant call a slot that was never bound with
\* SetOnStart / SetOnFinish executes nothing, and no invalid pointer is
\* dereferenced: the call does what its bound slots say and nothing else.
C13_UnboundSlotIsNoOp ==
    called_with.called =>
        /\ ~cmd_ub
        /\ ~cmd_crashed
        /\ cmd_log = InvokerBegins
                       \o ExpectedSlot("on_start_", called_with.start)
                       \o InvokerWorks
                       \o ExpectedSlot("on_finish_", called_with.finish)

\* C18: a DoSomethingImportant call whose slots hold bound commands (or
\* null) executes the on-start command, then the on-finish command, each
\* once; each Execute does what the constructor arguments of its command
\* say, and ComplexCommand::Execute calls DoSomething(a), then
\* DoSomethingElse(b), on its receiver.
C18_StartThenFinishOnce ==
    (/\ called_with.called
     /\ called_with.start # Indeterminate
     /\ called_with.finish # Indeterminate) =>
        cmd_log = InvokerBegins
                    \o (IF called_with.start = nullptr THEN <<>>
                        ELSE ExpectedExecute(made[called_with.start]))
                    \o InvokerWorks
                    \o (IF called_with.finish = nullptr THEN <<>>
                        ELSE ExpectedExecute(made[called_with.finish]))

\* A call with a SimpleCommand on start and a ComplexCommand on finish, both
\* bound with the setters, as in main.
C18_Witness ==
    /\ called_with.called
    /\ called_with.bound = {"on_start_", "on_finish_"}
    /\ called_with.start # called_with.finish
    /\ made[called_with.start].kind = "SimpleCommand"
    /\ made[called_with.finish].kind = "ComplexCommand"
    /\ made[called_with.finish].a # made[called_with.finish].b
    /\ Len(cmd_log) = 7

(***************************************************************************)
(* Properties of the Strategy                                              *)
(***************************************************************************)
\* The strategy the Context was last given before the last call.
GivenAtCall == ctx_last.given[Len(ctx_last.given)]

\* C14: a doSomeBusinessLogic call made when the Context was last given no
\* strategy (by its constructor or by set_strategy) prints "Context:
\* Strategy isn't set" and nothing else and invokes no doAlgorithm; a call
\* made when it was last given a strategy invokes that strategy, also when
\* an earlier call found none.
C14_NoStrategyIsReported ==
    ctx_last.called =>
        IF GivenAtCall = nullptr
        THEN ctx_output = <<NotSetLine>> /\ ctx_last.invoked = <<>>
        ELSE /\ ctx_last.invoked = <<GivenAtCall>>
             /\ ctx_output = <<SortingLine,
                               Line("result", doAlgorithm(GivenAtCall, ctx_last.text))>>

\* A call that found a strategy set after an earlier call found none, the
\* strategy having been emptied with set_strategy in between.
C14_Witness ==
    /\ ctx_last.called
    /\ ctx_last.after_unset
    /\ Len(ctx_last.given) = 3
    /\ ctx_last.given[1] # nullptr
    /\ ctx_last.given[2] = nullptr
    /\ GivenAtCall = ConcreteStrategyB
    /\ Len(ctx_output) = 2

Reverse(s) == [i \in 1..Len(s) |-> s[Len(s) + 1 - i]]
IsAscending(s) == \A i \in 1..(Len(s) - 1) : s[i] <= s[i + 1]
IsDescending(s) == \A i \in 1..(Len(s) - 1) : s[i] >= s[i + 1]
IsPermutation(s, t) ==
    /\ Len(s) = Len(t)
    /\ \A c \in Range(s) \cup Range(t) : Count(s, c) = Count(t, c)

\* "abcdefghij"
ClientTextAscending == <<97, 98, 99, 100, 101, 102, 103, 104, 105, 106>>
\* "jihgfedcba"
ClientTextDescending == <<106, 105, 104, 103, 102, 101, 100, 99, 98, 97>>

\* C15: on the text of a doSomeBusinessLogic call ConcreteStrategyA gives
\* the characters in ascending order and ConcreteStrategyB in descending
\* order, each a permutation of the text and each the reverse of the other;
\* "haegicbjdf" gives "abcdefghij" and "jihgfedcba"; and the call prints
\* the result of the strategy that is held.
C15_SortedBothWays ==
    ctx_last.called =>
        LET text == ctx_last.text
            a == doAlgorithm(ConcreteStrategyA, text)
            b == doAlgorithm(ConcreteStrategyB, text)
        IN  /\ IsAscending(a) /\ IsPermutation(a, text)
            /\ IsDescending(b) /\ IsPermutation(b, text)
            /\ b = Reverse(a)
            /\ text = ClientText =>
                  a = ClientTextAscending /\ b = ClientTextDescending
            /\ GivenAtCall = ConcreteStrategyA => ctx_output[2].data = a
            /\ GivenAtCall = ConcreteStrategyB => ctx_output[2].data = b

\* The descending strategy, set in place of the ascending one, has sorted
\* the client's text.
C15_Witness ==
    /\ ctx_last.called
    /\ ctx_last.text = ClientText
    /\ ctx_last.given = <<ConcreteStrategyA, ConcreteStrategyB>>
    /\ ctx_output = <<SortingLine, Line("result", ClientTextDescending)>>

(***************************************************************************)
(* Properties of the Decorator                                             *)
(***************************************************************************)
\* The string told from the decorators stacked around the base, innermost
\* first: each marker, "(", what is inside, ")".
RECURSIVE Nested(_)
Nested(markers) ==
    IF markers = <<>> THEN <<"ConcreteComponent">>
    ELSE <<markers[Len(markers)], "(">>
            \o Nested(SubSeq(markers, 1, Len(markers) - 1))
            \o <<")">>

\* C16: Operation() of a component wrapped in N decorators is the N markers
\* nested in wrapping order, innermost first, around "ConcreteComponent";
\* and Operation() of every decorator, whatever it wraps, is its marker,
\* "(", the Operation() of the component it wraps, ")".
C16_NestedInWrappingOrder ==
    /\ dec_result.of # nullptr =>
          dec_result.value = Nested(wraps[dec_result.of])
    /\ \A c \in 1..Len(components) :
          components[c].class \in Decorators =>
             /\ Operation(c) = <<components[c].class, "(">>
                                 \o Operation(components[c].component_) \o <<")">>
             /\ Operation(c) = Nested(wraps[c])

\* ConcreteComponent wrapped with A, then B, then C, as in main.
C16_Witness ==
    /\ dec_result.of # nullptr
    /\ wraps[dec_result.of] =
          <<"ConcreteDecoratorA", "ConcreteDecoratorB", "ConcreteDecoratorC">>
    /\ dec_result.value =
          <<"ConcreteDecoratorC", "(", "ConcreteDecoratorB", "(",
            "ConcreteDecoratorA", "(", "ConcreteComponent", ")", ")", ")">>

====
